---- MODULE Spec2Model ----
(***************************************************************************)
(* Model of the resilient fetch layer of somonox/Forecaster:               *)
(*   - "13f parser/fallback_cache.py": the file cache (_load, _store) and  *)
(*     the conditional fetcher cached_get;                                 *)
(*   - "i need news/new_loader.py": the retrying fetch _fetch_one and the  *)
(*     crawl load_news_async.                                              *)
(* The specifications share the variables:                                 *)
(*   Spec       a sequence of cached_get calls against the file cache,     *)
(*              every file operation succeeding;                           *)
(*   SpecFault  cached_get calls for one URL, at one time, with file       *)
(*              operations of _store that raise and entries that are       *)
(*              damaged;                                                   *)
(*   SpecRace   two _store calls for one URL interleaved;                  *)
(*   SpecFetch  one _fetch_one call on its own;                            *)
(*   SpecStore  one _store running file operation by file operation        *)
(*              beside a concurrent _load, with process stops;             *)
(*   SpecCrawl  one load_news_async call, its tasks interleaved at their   *)
(*              await points; SpecCrawlFair is SpecCrawl under the         *)
(*              scheduling of the event loop;                              *)
(*   SpecSector   get_sector_industry calls ("13f parser/love_cusip.py");  *)
(*   SpecNews     news_dumps.json written by "i need news/news_parser.py"  *)
(*                and read by load_news_articles (sector_forecaster.py);   *)
(*   SpecHoldings group_and_merge ("13f parser/stock.py").                 *)
(* Optional values (Python None or a value) are sequences of length <= 1.  *)
(***************************************************************************)
EXTENDS Integers, Sequences, FiniteSets, TLC

VARIABLES
    fs,       \* .fallback_cache: key -> the four files of the key
    now,      \* int(time.time())
    call,     \* the last cached_get call: its arguments, request, reply, result
    seen,     \* history: url -> the body and time of its last 200 reply
    wpc,      \* _store in progress: position of the writer
    wresp,    \* _store in progress: the response being stored
    written,  \* history: the (meta, data) pairs _store was called with
    nstores,  \* history: number of _store calls started
    rpc,      \* _load in progress: position of the reader
    rmeta,    \* _load in progress: the metadata read
    rret,     \* _load: the value returned
    phase,            \* load_news_async: "gather", "returned" or "raised"
    items,            \* the items of __get_news_links
    max_retries,      \* _fetch_one's parameter
    backoff_base,     \* _fetch_one's parameter
    max_concurrency,  \* load_news_async's parameter
    pc,               \* task -> its await point
    attempt,          \* task -> the loop variable of _fetch_one
    page,             \* task -> the 200 response being parsed
    rec,              \* task -> the value _fetch_one returned
    gets,             \* history: task -> number of client.get calls
    waited,           \* history: task -> total delay slept
    n5xx,             \* history: task -> number of 5xx replies received
    extracted,        \* history: task -> attempts whose response was extracted
    last,             \* history: task -> the outcome of its last client.get
    results,          \* what gather returned
    merged,           \* what load_news_async returned
    cache,            \* YFSectorFetcher.cache: ticker -> its entry
    cache_file,       \* .yf_sector_cache.json
    lookup,           \* the last get_sector_industry call
    dumps,            \* news_parser: the lists written to news_dumps.json
    news_file,        \* the text of news_dumps.json
    news_loaded,      \* what load_news_articles did on news_file
    stocks,           \* the argument of group_and_merge
    grouped,          \* group_and_merge(stocks)
    regrouped         \* group_and_merge of that result

cacheVars == <<fs, now, call, seen>>
storeVars == <<wpc, wresp, written, nstores, rpc, rmeta, rret>>
taskVars == <<pc, attempt, page, rec, gets, waited, n5xx, extracted, last>>
paramVars == <<items, max_retries, backoff_base, max_concurrency>>
crawlVars == <<phase, items, max_retries, backoff_base, max_concurrency,
               pc, attempt, page, rec, gets, waited, n5xx, extracted, last,
               results, merged>>
sectorVars == <<cache, cache_file, lookup>>
newsVars == <<dumps, news_file, news_loaded>>
holdingVars == <<stocks, grouped, regrouped>>
toolVars == <<sectorVars, newsVars, holdingVars>>
vars == <<fs, now, call, seen, wpc, wresp, written, nstores, rpc, rmeta, rret,
          phase, items, max_retries, backoff_base, max_concurrency,
          pc, attempt, page, rec, gets, waited, n5xx, extracted, last,
          results, merged, cache, cache_file, lookup,
          dumps, news_file, news_loaded, stocks, grouped, regrouped>>

None == <<>>
Some(x) == <<x>>
NoneStr == "<None>"

(***************************************************************************)
(* Bounds of the model.                                                    *)
(***************************************************************************)
MaxTime == 2
MaxTtl == 1
MaxStores == 3
MaxItems == 2
MaxConcurrency == 1
MaxRetries == 4
MaxBackoffBase == 2

Urls == {"u1", "u2"}
Ttls == {None} \cup {Some(t) : t \in 0..MaxTtl}

(***************************************************************************)
(* Headers.  httpx.Headers compares names case-insensitively; dict() of it *)
(* yields the lower-cased names.                                           *)
(***************************************************************************)
NoHeaders == [n \in {} |-> ""]

Lower(n) ==
    CASE n = "ETag" -> "etag"
      [] n = "Last-Modified" -> "last-modified"
      [] n = "Content-Encoding" -> "content-encoding"
      [] n = "Content-Length" -> "content-length"
      [] n = "Transfer-Encoding" -> "transfer-encoding"
      [] n = "TRANSFER-ENCODING" -> "transfer-encoding"
      [] n = "X-Frame" -> "x-frame"
      [] n = "If-None-Match" -> "if-none-match"
      [] n = "If-Modified-Since" -> "if-modified-since"
      [] OTHER -> n

HeaderGet(h, name) ==
    IF \E n \in DOMAIN h : Lower(n) = Lower(name)
    THEN h[CHOOSE n \in DOMAIN h : Lower(n) = Lower(name)]
    ELSE NoneStr

HeaderDictAsSent(h) == h

HeaderDict(h) ==
    [n \in {Lower(m) : m \in DOMAIN h} |-> h[CHOOSE m \in DOMAIN h : Lower(m) = n]]

Truthy(s) == s \notin {NoneStr, ""}

(***************************************************************************)
(* What the server may answer to a GET, and the transport failure.         *)
(***************************************************************************)
Response(status, headers, content) ==
    [kind |-> "response", status |-> status, headers |-> headers,
     content |-> content, ext |-> {}]

TransportError == [kind |-> "exception", status |-> 0, headers |-> NoHeaders,
                   content |-> "", ext |-> {}]

NoReply == [kind |-> "none", status |-> 0, headers |-> NoHeaders,
            content |-> "", ext |-> {}]

Ok200 ==
    { Response(200, ("ETag" :> "e1" @@ "Content-Encoding" :> "gzip"
                         @@ "TRANSFER-ENCODING" :> "chunked"
                         @@ "X-Frame" :> "deny"), "b1"),
      Response(200, ("Last-Modified" :> "d1" @@ "content-length" :> "2"), "b2") }

NotModified == Response(304, ("ETag" :> "e1"), "")

OtherStatus == { Response(404, NoHeaders, "nf"), Response(500, NoHeaders, "err") }

Replies == Ok200 \cup {NotModified} \cup OtherStatus \cup {TransportError}

ExtraHeaders ==
    { NoHeaders,
      ("If-None-Match" :> "caller" @@ "if-modified-since" :> "lower"
           @@ "User-Agent" :> "ua") }

(***************************************************************************)
(* The cache directory: per key the files <key>.meta.json, <key>.data and  *)
(* the temporary files <key>.meta.tmp, <key>.tmp.  A file is None (it does *)
(* not exist) or Some(content); bad holds the files among mp, dp that      *)
(* exist and cannot be read or parsed.                                     *)
(***************************************************************************)
_key(url) == <<"sha1", url>>

Keys == {_key(u) : u \in Urls}

NoFiles == [mp |-> None, dp |-> None, tmpm |-> None, tmpd |-> None, bad |-> {}]

EntryState(files) ==
    CASE files.mp = None /\ files.dp = None -> "absent"
      [] files.mp = None \/ files.dp = None -> "incomplete"
      [] files.bad # {} -> "unreadable"
      [] OTHER -> "present"

LoadIgnoresDamage(f, key) ==
    IF f[key].mp = None \/ f[key].dp = None
    THEN None
    ELSE Some([meta |-> f[key].mp[1], data |-> f[key].dp[1]])

_load(f, key) ==
    IF f[key].mp = None \/ f[key].dp = None
    THEN None
    ELSE IF f[key].bad # {}
         THEN None
         ELSE Some([meta |-> f[key].mp[1], data |-> f[key].dp[1]])

MetaOf(url, resp, t) ==
    [url |-> url,
     stored_at |-> t,
     headers |-> HeaderDict(resp.headers),
     etag |-> HeaderGet(resp.headers, "ETag"),
     last_modified |-> HeaderGet(resp.headers, "Last-Modified"),
     status |-> resp.status]

WriteTmpData(f, key, content) == [f EXCEPT ![key].tmpd = Some(content)]

WriteTmpMeta(f, key, meta) == [f EXCEPT ![key].tmpm = Some(meta)]

ReplaceData(f, key) ==
    [f EXCEPT ![key].dp = f[key].tmpd, ![key].tmpd = None,
              ![key].bad = f[key].bad \ {"dp"}]

ReplaceMeta(f, key) ==
    [f EXCEPT ![key].mp = f[key].tmpm, ![key].tmpm = None,
              ![key].bad = f[key].bad \ {"mp"}]

StoreSkipsData(f, key, url, resp, t) ==
    ReplaceMeta(WriteTmpMeta(WriteTmpData(f, key, resp.content),
                             key, MetaOf(url, resp, t)), key)

_store(f, key, url, resp, t) ==
    ReplaceMeta(
        ReplaceData(
            WriteTmpMeta(WriteTmpData(f, key, resp.content),
                         key, MetaOf(url, resp, t)), key), key)

(***************************************************************************)
(* _store left by an exception of its fail-th file operation (1 the write  *)
(* of the temporary data file, 2 the write of the temporary metadata file, *)
(* 3 the rename of the data file, 4 the rename of the metadata file): the  *)
(* operations before it have been done.                                    *)
(***************************************************************************)
StoreRaises(f, key, url, resp, t, fail) ==
    CASE fail = 1 -> f
      [] fail = 2 -> WriteTmpData(f, key, resp.content)
      [] fail = 3 -> WriteTmpMeta(WriteTmpData(f, key, resp.content),
                                  key, MetaOf(url, resp, t))
      [] OTHER -> ReplaceData(WriteTmpMeta(WriteTmpData(f, key, resp.content),
                                           key, MetaOf(url, resp, t)), key)

SanitizeKeys == {"Content-Encoding", "content-encoding",
                 "Transfer-Encoding", "transfer-encoding",
                 "Content-Length", "content-length"}

SanitizeNothing(h) == h

_sanitize_headers(h) == [n \in (DOMAIN h) \ SanitizeKeys |-> h[n]]

(***************************************************************************)
(* httpx.Response(content = data, headers = h) decodes data according to   *)
(* a Content-Encoding header in h; the stored data is already decoded, so  *)
(* a second decoding does not give the data back.                          *)
(***************************************************************************)
ResponseContent(h, data) ==
    IF HeaderGet(h, "Content-Encoding") = NoneStr THEN data ELSE "<DecodingError>"

_build_response_from_cache(meta, data) ==
    [kind |-> "response",
     status |-> 200,
     headers |-> _sanitize_headers(meta.headers),
     content |-> ResponseContent(_sanitize_headers(meta.headers), data),
     ext |-> {"from_cache", "fallback_cache"}]

Raised == [kind |-> "raised", status |-> 0, headers |-> NoHeaders,
           content |-> "", ext |-> {}]

(***************************************************************************)
(* cached_get.                                                             *)
(***************************************************************************)
CondHeadersCallerWins(extra, meta) ==
    LET h1 == IF Truthy(meta.etag)
              THEN extra @@ ("If-None-Match" :> meta.etag) ELSE extra
    IN IF Truthy(meta.last_modified)
       THEN h1 @@ ("If-Modified-Since" :> meta.last_modified) ELSE h1

CondHeaders(extra, meta) ==
    LET h1 == IF Truthy(meta.etag)
              THEN ("If-None-Match" :> meta.etag) @@ extra ELSE extra
    IN IF Truthy(meta.last_modified)
       THEN ("If-Modified-Since" :> meta.last_modified) @@ h1 ELSE h1

TtlStrict(ttl, t, meta) == ttl = None \/ t - meta.stored_at < ttl[1]

TtlPermits(ttl, t, meta) == ttl = None \/ t - meta.stored_at <= ttl[1]

On304ReturnsReply(meta, data, resp) == resp

On304(meta, data, resp) == _build_response_from_cache(meta, data)

OnException(ttl, t, meta, data) ==
    IF TtlPermits(ttl, t, meta) THEN _build_response_from_cache(meta, data) ELSE Raised

OnMissReturnsFailed(reply) ==
    IF reply.kind = "exception" THEN Response(599, NoHeaders, "") ELSE reply

OnMiss(reply) == IF reply.kind = "exception" THEN Raised ELSE reply

StoresAnyStatus(reply) == reply.kind = "response" /\ reply.status # 304

Stores(reply) == reply.kind = "response" /\ reply.status = 200

Conditional(h) ==
    HeaderGet(h, "If-None-Match") # NoneStr \/ HeaderGet(h, "If-Modified-Since") # NoneStr

cached_get(url, ttl, extra, reply, fail) ==
    LET key == _key(url)
        loaded == _load(fs, key)
        sent == IF loaded # None THEN CondHeaders(extra, loaded[1].meta) ELSE extra
        stores == Stores(reply)
        storeRaises == stores /\ fail # 0
        result ==
            IF loaded # None
            THEN CASE reply.kind = "exception" \/ storeRaises ->
                          OnException(ttl, now, loaded[1].meta, loaded[1].data)
                   [] reply.status = 304 ->
                          On304(loaded[1].meta, loaded[1].data, reply)
                   [] OTHER -> reply
            ELSE IF storeRaises THEN Raised ELSE OnMiss(reply)
    IN /\ reply.status = 304 => Conditional(sent)
       /\ fs' = CASE stores /\ fail = 0 -> _store(fs, key, url, reply, now)
                  [] stores /\ fail # 0 -> StoreRaises(fs, key, url, reply, now, fail)
                  [] OTHER -> fs
       /\ seen' = IF reply.kind = "response" /\ reply.status = 200
                  THEN [seen EXCEPT ![url] = Some([body |-> reply.content, at |-> now])]
                  ELSE seen
       /\ call' = [url |-> url, ttl |-> ttl, extra |-> extra, sent |-> sent,
                   reply |-> reply, fail |-> fail, entry |-> EntryState(fs[key]),
                   hit |-> loaded # None,
                   etag |-> IF loaded # None THEN loaded[1].meta.etag ELSE NoneStr,
                   last_modified |-> IF loaded # None
                                     THEN loaded[1].meta.last_modified ELSE NoneStr,
                   prev |-> IF loaded # None THEN Some(loaded[1].data) ELSE None,
                   at |-> now, result |-> result]
       /\ UNCHANGED <<now>>

CachedGet ==
    /\ \E url \in Urls, ttl \in Ttls, extra \in ExtraHeaders, reply \in Replies :
           cached_get(url, ttl, extra, reply, 0)
    /\ UNCHANGED storeVars
    /\ UNCHANGED <<crawlVars, toolVars>>

Tick ==
    /\ now < MaxTime
    /\ now' = now + 1
    /\ UNCHANGED <<fs, call, seen>>
    /\ UNCHANGED storeVars
    /\ UNCHANGED <<crawlVars, toolVars>>

NoCall == [url |-> "", ttl |-> None, extra |-> NoHeaders, sent |-> NoHeaders,
           reply |-> NoReply, fail |-> 0, entry |-> "absent",
           hit |-> FALSE, etag |-> NoneStr, last_modified |-> NoneStr,
           prev |-> None, at |-> 0,
           result |-> NoReply]

StoreIdle ==
    /\ wpc = "idle"
    /\ wresp = NoReply
    /\ written = {}
    /\ nstores = 0
    /\ rpc = "idle"
    /\ rmeta = None
    /\ rret = None

CacheEmpty ==
    /\ fs = [k \in Keys |-> NoFiles]
    /\ now = 0
    /\ call = NoCall
    /\ seen = [u \in Urls |-> None]

CrawlIdle ==
    /\ phase = "idle"
    /\ items = <<>>
    /\ max_retries = 0
    /\ backoff_base = 0
    /\ max_concurrency = 0
    /\ pc = <<>>
    /\ attempt = <<>>
    /\ page = <<>>
    /\ rec = <<>>
    /\ gets = <<>>
    /\ waited = <<>>
    /\ n5xx = <<>>
    /\ extracted = <<>>
    /\ last = <<>>
    /\ results = <<>>
    /\ merged = <<>>

SectorIdle ==
    /\ cache = <<>>
    /\ cache_file = None
    /\ lookup = None

NewsIdle ==
    /\ dumps = <<>>
    /\ news_file = <<>>
    /\ news_loaded = None

HoldingsIdle ==
    /\ stocks = <<>>
    /\ grouped = None
    /\ regrouped = None

ToolsIdle == SectorIdle /\ NewsIdle /\ HoldingsIdle

Init ==
    /\ CacheEmpty
    /\ StoreIdle
    /\ CrawlIdle
    /\ ToolsIdle

Next == CachedGet \/ Tick

Spec == Init /\ [][Next]_vars

(***************************************************************************)
(* C1  Stale-fallback round trip: once a cached_get for a URL has received *)
(* a 200 reply with body B, a later cached_get for that URL whose GET      *)
(* raises returns (does not raise) a response with body B, whenever ttl is *)
(* None or the time since that 200 reply is within ttl.                    *)
(***************************************************************************)
StaleFallbackRoundTrip ==
    (/\ call.reply.kind = "exception"
     /\ seen[call.url] # None
     /\ (call.ttl = None \/ call.at - seen[call.url][1].at <= call.ttl[1]))
    => /\ call.result.kind = "response"
       /\ call.result.content = seen[call.url][1].body

StaleFallbackWitness ==
    /\ call.reply.kind = "exception"
    /\ call.ttl = Some(1)
    /\ seen[call.url] # None
    /\ call.at = seen[call.url][1].at + 1
    /\ call.result.kind = "response"
    /\ call.result.content = "b1"
    /\ "fallback_cache" \in call.result.ext

(***************************************************************************)
(* C2  TTL boundary: with ttl = T, an entry for the URL and a raising GET, *)
(* the cached response is returned when now - stored_at <= T and the       *)
(* exception is propagated when now - stored_at >= T + 1; with ttl = None  *)
(* the cached response is returned at every age.                           *)
(***************************************************************************)
EntryAge == call.at - _load(fs, _key(call.url))[1].meta.stored_at

TtlExpiredWitness ==
    /\ call.reply.kind = "exception"
    /\ call.hit
    /\ call.ttl = Some(1)
    /\ EntryAge = 2
    /\ call.result = Raised

(***************************************************************************)
(* C3  304 handling: with an entry carrying an ETag stored for the URL and *)
(* a 304 reply to the conditional GET, cached_get returns a response whose *)
(* body is the stored body, not the empty body of the 304 reply.           *)
(***************************************************************************)
NotModifiedServesStoredBody ==
    (/\ call.reply.kind = "response"
     /\ call.reply.status = 304
     /\ call.hit
     /\ Truthy(_load(fs, _key(call.url))[1].meta.etag))
    => /\ call.result.kind = "response"
       /\ call.result.status = 200
       /\ call.result.content = seen[call.url][1].body
       /\ call.result.content = _load(fs, _key(call.url))[1].data

NotModifiedWitness ==
    /\ call.reply.kind = "response"
    /\ call.reply.status = 304
    /\ call.hit
    /\ HeaderGet(call.sent, "If-None-Match") = "e1"
    /\ call.reply.content = ""
    /\ call.result.content = "b1"

(***************************************************************************)
(* C4  Idempotent re-fetch: after a cached_get for a URL received a 200    *)
(* reply with body B, the entry loaded for that URL is the metadata of     *)
(* that reply with body B, whether or not an entry existed before, until   *)
(* the next 200 reply for the URL.                                         *)
(***************************************************************************)
FreshReplyOverwritesEntry ==
    /\ \A u \in Urls :
          seen[u] # None
          => /\ _load(fs, _key(u)) # None
             /\ _load(fs, _key(u))[1].data = seen[u][1].body
             /\ _load(fs, _key(u))[1].meta.stored_at = seen[u][1].at
    /\ (call.reply.kind = "response" /\ call.reply.status = 200)
          => _load(fs, _key(call.url)) =
                 Some([meta |-> MetaOf(call.url, call.reply, call.at),
                       data |-> call.reply.content])

OverwriteWitness ==
    /\ call.reply.kind = "response"
    /\ call.reply.status = 200
    /\ call.prev = Some("b1")
    /\ call.reply.content = "b2"
    /\ _load(fs, _key(call.url))[1].data = "b2"

(***************************************************************************)
(* SpecStore: one writer running _store one file operation at a time, one  *)
(* reader running _load one file operation at a time, on the key of one    *)
(* URL.  The writer's process may stop between any two file operations; a  *)
(* new process may run _store afterwards.                                  *)
(***************************************************************************)
StoreUrl == "u1"

StoreKey == _key(StoreUrl)

StoreWriteTmpData ==
    /\ wpc \in {"idle", "crashed"}
    /\ nstores < MaxStores
    /\ \E resp \in Ok200 :
          /\ wresp' = resp
          /\ fs' = WriteTmpData(fs, StoreKey, resp.content)
          /\ written' = written \cup
                 {[meta |-> MetaOf(StoreUrl, resp, now), data |-> resp.content]}
    /\ nstores' = nstores + 1
    /\ wpc' = "wrote_tmpd"
    /\ UNCHANGED <<now, call, seen, rpc, rmeta, rret>>
    /\ UNCHANGED <<crawlVars, toolVars>>

StoreWriteTmpMeta ==
    /\ wpc = "wrote_tmpd"
    /\ fs' = WriteTmpMeta(fs, StoreKey, MetaOf(StoreUrl, wresp, now))
    /\ wpc' = "wrote_tmpm"
    /\ UNCHANGED <<now, call, seen, wresp, written, nstores, rpc, rmeta, rret>>
    /\ UNCHANGED <<crawlVars, toolVars>>

StoreReplaceData ==
    /\ wpc = "wrote_tmpm"
    /\ fs' = ReplaceData(fs, StoreKey)
    /\ wpc' = "replaced_dp"
    /\ UNCHANGED <<now, call, seen, wresp, written, nstores, rpc, rmeta, rret>>
    /\ UNCHANGED <<crawlVars, toolVars>>

StoreReplaceMeta ==
    /\ wpc = "replaced_dp"
    /\ fs' = ReplaceMeta(fs, StoreKey)
    /\ wpc' = "idle"
    /\ UNCHANGED <<now, call, seen, wresp, written, nstores, rpc, rmeta, rret>>
    /\ UNCHANGED <<crawlVars, toolVars>>

Crash ==
    /\ wpc \in {"wrote_tmpd", "wrote_tmpm", "replaced_dp"}
    /\ wpc' = "crashed"
    /\ UNCHANGED <<fs, now, call, seen, wresp, written, nstores, rpc, rmeta, rret>>
    /\ UNCHANGED <<crawlVars, toolVars>>

LoadExists ==
    /\ rpc \in {"idle", "returned"}
    /\ IF fs[StoreKey].mp # None /\ fs[StoreKey].dp # None
       THEN rpc' = "checked" /\ rret' = None
       ELSE rpc' = "returned" /\ rret' = None
    /\ rmeta' = None
    /\ UNCHANGED <<fs, now, call, seen, wpc, wresp, written, nstores>>
    /\ UNCHANGED <<crawlVars, toolVars>>

LoadReadMeta ==
    /\ rpc = "checked"
    /\ rmeta' = fs[StoreKey].mp
    /\ rpc' = "read_meta"
    /\ UNCHANGED <<fs, now, call, seen, wpc, wresp, written, nstores, rret>>
    /\ UNCHANGED <<crawlVars, toolVars>>

LoadReadData ==
    /\ rpc = "read_meta"
    /\ rret' = Some([meta |-> rmeta[1], data |-> fs[StoreKey].dp[1]])
    /\ rpc' = "returned"
    /\ UNCHANGED <<fs, now, call, seen, wpc, wresp, written, nstores, rmeta>>
    /\ UNCHANGED <<crawlVars, toolVars>>

NextStore ==
    \/ StoreWriteTmpData
    \/ StoreWriteTmpMeta
    \/ StoreReplaceData
    \/ StoreReplaceMeta
    \/ Crash
    \/ LoadExists
    \/ LoadReadMeta
    \/ LoadReadData

SpecStore == Init /\ [][NextStore]_vars

(***************************************************************************)
(* C5  Atomic put against a concurrent reader: a _load interleaved with a  *)
(* _store of the same key returns nothing or a complete (metadata, body)   *)
(* pair of one _store call, never the metadata of one write with the body  *)
(* of another.                                                             *)
(***************************************************************************)
LoadReturnsWrittenPair ==
    rpc = "returned" => (rret = None \/ rret[1] \in written)

(***************************************************************************)
(* C6  Crash safety of put: when the process stops during _store, what     *)
(* _load returns for the key afterwards is absent or a complete            *)
(* (metadata, body) pair of one _store call (the previous entry or the new *)
(* one).                                                                   *)
(***************************************************************************)
CrashLeavesWrittenPair ==
    wpc = "crashed" =>
        (_load(fs, StoreKey) = None \/ _load(fs, StoreKey)[1] \in written)

(***************************************************************************)
(* new_loader.py.  Strings that the code inspects (the Content-Type, the   *)
(* start of the body) are sequences of characters.                         *)
(***************************************************************************)
DefaultMaxRetries == 3
DefaultBackoffBase == 1
MinChars == 200

LowerChar(c) ==
    CASE c = "T" -> "t" [] c = "E" -> "e" [] c = "X" -> "x" [] c = "H" -> "h"
      [] c = "M" -> "m" [] c = "L" -> "l" [] OTHER -> c

LowerStr(str) == [i \in 1..Len(str) |-> LowerChar(str[i])]

Contains(str, sub) ==
    \E i \in 1..(Len(str) - Len(sub) + 1) : SubSeq(str, i, i + Len(sub) - 1) = sub

Whitespace == {" ", "\t", "\n", "\r"}

LStrip(str) ==
    IF \A i \in 1..Len(str) : str[i] \in Whitespace
    THEN <<>>
    ELSE SubSeq(str, CHOOSE i \in 1..Len(str) :
                        /\ str[i] \notin Whitespace
                        /\ \A j \in 1..(i - 1) : str[j] \in Whitespace,
                Len(str))

StartsWith(str, c) == Len(str) >= 1 /\ str[1] = c

TextHtml == <<"t", "e", "x", "t", "/", "h", "t", "m", "l">>
TextHtmlUpper == <<"T", "E", "X", "T", "/", "H", "T", "M", "L">>
TextPlain == <<"t", "e", "x", "t", "/", "p", "l", "a", "i", "n">>
AppJson == <<"a", "p", "p", "/", "j", "s", "o", "n">>

Ex(status, len) == [status |-> status, len |-> len]

NoEx == Ex("none", 0)

Reply(kind, status) ==
    [kind |-> kind, status |-> status, ct |-> None, text |-> <<>>,
     traf |-> NoEx, read |-> NoEx, strip |-> NoEx, title |-> NoneStr]

Page200(ct, text, traf, read, strip, title) ==
    [kind |-> "response", status |-> 200, ct |-> ct, text |-> text,
     traf |-> traf, read |-> read, strip |-> strip, title |-> title]

NoPage == Reply("none", 0)

Article == Page200(Some(TextHtml), <<"<", "p", ">">>,
                   Ex("text", 500), NoEx, NoEx, "Page title")

Fallback == Page200(Some(TextHtmlUpper), <<"{", "}">>,
                    Ex("none", 0), Ex("raises", 0), Ex("text", 250), NoneStr)

Thin == Page200(Some(TextPlain), <<" ", "\n", "<", "a", ">">>,
                Ex("text", 50), NoEx, NoEx, "")

Empty == Page200(Some(TextHtml), <<"<", "p", ">">>,
                 Ex("none", 0), Ex("text", 10), Ex("text", 199), "Page title")

Broken == Page200(Some(TextHtml), <<"<", "p", ">">>,
                  Ex("raises", 0), NoEx, NoEx, NoneStr)

Json == Page200(Some(AppJson), <<" ", "{", "}">>, NoEx, NoEx, NoEx, NoneStr)

Untyped == Page200(None, <<"{", "<", "}">>, NoEx, NoEx, NoEx, NoneStr)

Pages == {Article, Fallback, Thin, Empty, Broken, Json, Untyped}

HttpError == Reply("HTTPError", 0)

TransportFailures == {Reply("ReadTimeout", 0), HttpError, Reply("Exception", 0)}

FetchReplies ==
    Pages \cup {Reply("response", 404), Reply("response", 503)} \cup TransportFailures

(***************************************************************************)
(* URLs.  urlparse raises ValueError on UrlBad (an unclosed bracket in the *)
(* host); such a URL names no host, so a GET for it always raises.  The    *)
(* tasks of a crawl draw their replies from CrawlReplies, a _fetch_one     *)
(* observed on its own from FetchReplies.                                  *)
(***************************************************************************)
UrlA == "http://a.example/1"
UrlB == "http://b.example/2"
UrlBad == "http://[bad/3"

UrlParses(link) == link # UrlBad

Netloc(link) ==
    CASE link = UrlA -> "a.example" [] link = UrlB -> "b.example" [] OTHER -> ""

CrawlReplies ==
    {Article, Fallback, Broken, Json, Reply("response", 404), Reply("response", 503),
     Reply("ReadTimeout", 0)}

RepliesFor(link, ph) ==
    IF UrlParses(link)
    THEN IF ph = "fetch" THEN FetchReplies ELSE CrawlReplies
    ELSE {HttpError, Reply("Exception", 0)}

CrawlItems ==
    { [url |-> UrlA, title |-> "Title A", domain |-> "feed-a", seendate |-> "d1",
       source |-> "Source A"],
      [url |-> UrlB, title |-> NoneStr, domain |-> "feed-b", seendate |-> "d2",
       source |-> NoneStr],
      [url |-> UrlBad, title |-> "Title C", domain |-> "feed-c", seendate |-> "d3",
       source |-> "Source C"],
      [url |-> UrlA, title |-> "Title D", domain |-> "feed-d", seendate |-> "d4",
       source |-> "Source D"] }

ItemLists == UNION {[1..n -> CrawlItems] : n \in 0..MaxItems}

(***************************************************************************)
(* extract_main_text.  The three extractors are libraries: a page carries  *)
(* what each of them does on it, "raises", "none" (no text) or "text" with *)
(* the length of the text after _normalize_text.                           *)
(***************************************************************************)
Text(by, len) == [by |-> by, len |-> len]

_is_minimal(text) == text = None \/ text[1].len < MinChars

Extracted(raises, text) == [raises |-> raises, text |-> text]

extract_main_text(html) ==
    LET readText == IF html.read.status = "text"
                    THEN Some(Text("readability", html.read.len)) ELSE None
        stripText == Some(Text("strip", html.strip.len))
    IN CASE html.traf.status = "raises" -> Extracted(TRUE, None)
         [] html.traf.status = "text" ->
                Extracted(FALSE, Some(Text("trafilatura", html.traf.len)))
         [] html.read.status = "text" /\ ~_is_minimal(readText) ->
                Extracted(FALSE, readText)
         [] html.strip.status = "raises" -> Extracted(TRUE, None)
         [] OTHER ->
                Extracted(FALSE, IF _is_minimal(stripText) THEN None ELSE stripText)

_parse_html_and_title(html, link) ==
    LET ex == extract_main_text(html)
    IN [raises |-> ex.raises \/ ~UrlParses(link),
        clean |-> ex.text,
        title |-> html.title,
        domain |-> Netloc(link)]

Record(link, clean, title, domain) ==
    [url |-> link, clean_text |-> clean, title |-> title, domain |-> domain]

FailureRecord(link) == Record(link, None, NoneStr, Netloc(link))

(***************************************************************************)
(* _fetch_one, one task per item, suspended at its await points:           *)
(*   "new"    created, not yet run                                         *)
(*   "get"    in client.get, waiting for a connection of the pool          *)
(*   "wire"   in client.get, holding a connection                          *)
(*   "sleep"  in asyncio.sleep                                             *)
(*   "parse"  in asyncio.to_thread(_work)                                  *)
(*   "done"   returned; "raised" left by an exception                      *)
(***************************************************************************)
Tasks == 1..Len(items)

Link(t) == items[t].url

RECURSIVE Pow2(_)
Pow2(n) == IF n = 0 THEN 1 ELSE 2 * Pow2(n - 1)

BackoffFromOne(base, i) == base * Pow2(i + 1)

Backoff(base, i) == base * Pow2(i)

HtmlNotInContentType(r) ==
    ~Contains(LowerStr(IF r.ct = None THEN <<>> ELSE r.ct[1]), <<"h", "t", "m", "l">>)

SkipsByContentType(r) == HtmlNotInContentType(r)

SkipsExtraction(r) ==
    HtmlNotInContentType(r) /\ ~StartsWith(LStrip(r.text), "<")

PoolUnlimited(limit) == limit + MaxItems

PoolLimit(limit) == limit

InUse == Cardinality({t \in Tasks : pc[t] = "wire"})

Running == phase \in {"gather", "fetch"}

Goto(t, p, a, r) ==
    /\ pc' = [pc EXCEPT ![t] = p]
    /\ attempt' = [attempt EXCEPT ![t] = a]
    /\ rec' = [rec EXCEPT ![t] = r]

Finish(t, r) == Goto(t, "done", 0, Some(r))

SleepSkipped(t) == Goto(t, "get", attempt[t] + 1, None)

Sleep(t) == Goto(t, "sleep", attempt[t], None)

Raise(t) == Goto(t, "raised", 0, None)

ExceptHandlerOneMore(t) ==
    IF attempt[t] < max_retries
    THEN Sleep(t)
    ELSE IF UrlParses(Link(t)) THEN Finish(t, FailureRecord(Link(t))) ELSE Raise(t)

ExceptHandler(t) ==
    IF attempt[t] < max_retries - 1
    THEN Sleep(t)
    ELSE IF UrlParses(Link(t)) THEN Finish(t, FailureRecord(Link(t))) ELSE Raise(t)

ReturnInTry(t, r) ==
    IF UrlParses(Link(t)) THEN Finish(t, r) ELSE ExceptHandler(t)

Is5xx(status) == 500 <= status /\ status < 600

(***************************************************************************)
(* The history variables are kept for a _fetch_one observed on its own     *)
(* (phase "fetch"), not for the tasks of a crawl.                          *)
(***************************************************************************)
Hist(new, old) == IF phase = "fetch" THEN new ELSE old

TaskStart(t) ==
    /\ Running
    /\ pc[t] = "new"
    /\ \A u \in 1..(t - 1) : pc[u] # "new"
    /\ IF max_retries <= 0
       THEN /\ pc' = [pc EXCEPT ![t] = "done"]
            /\ UNCHANGED gets
       ELSE /\ pc' = [pc EXCEPT ![t] = "get"]
            /\ gets' = Hist([gets EXCEPT ![t] = @ + 1], gets)
    /\ UNCHANGED <<attempt, page, rec, waited, n5xx, extracted, last>>
    /\ UNCHANGED <<phase, results, merged>>
    /\ UNCHANGED <<paramVars, cacheVars, storeVars, toolVars>>

Acquire(t) ==
    /\ Running
    /\ pc[t] = "get"
    /\ InUse < PoolLimit(max_concurrency)
    /\ pc' = [pc EXCEPT ![t] = "wire"]
    /\ UNCHANGED <<attempt, page, rec, gets, waited, n5xx, extracted, last>>
    /\ UNCHANGED <<phase, results, merged>>
    /\ UNCHANGED <<paramVars, cacheVars, storeVars, toolVars>>

PoolTimeout(t) ==
    /\ Running
    /\ pc[t] = "get"
    /\ InUse >= PoolLimit(max_concurrency)
    /\ last' = Hist([last EXCEPT ![t] = HttpError], last)
    /\ ExceptHandler(t)
    /\ UNCHANGED <<page, gets, waited, n5xx, extracted>>
    /\ UNCHANGED <<phase, results, merged>>
    /\ UNCHANGED <<paramVars, cacheVars, storeVars, toolVars>>

GetReturns(t) ==
    /\ Running
    /\ pc[t] = "wire"
    /\ \E r \in RepliesFor(Link(t), phase) :
          /\ last' = Hist([last EXCEPT ![t] = r], last)
          /\ n5xx' = Hist([n5xx EXCEPT ![t] =
                              IF r.kind = "response" /\ Is5xx(r.status)
                              THEN @ + 1 ELSE @], n5xx)
          /\ CASE r.kind # "response" ->
                      ExceptHandler(t) /\ UNCHANGED <<page, extracted>>
               [] r.kind = "response" /\ r.status # 200 ->
                      /\ IF Is5xx(r.status) /\ attempt[t] < max_retries - 1
                         THEN Sleep(t)
                         ELSE ReturnInTry(t, FailureRecord(Link(t)))
                      /\ UNCHANGED <<page, extracted>>
               [] r.kind = "response" /\ r.status = 200 /\ SkipsExtraction(r) ->
                      /\ ReturnInTry(t, FailureRecord(Link(t)))
                      /\ UNCHANGED <<page, extracted>>
               [] OTHER ->
                      /\ Goto(t, "parse", attempt[t], None)
                      /\ page' = [page EXCEPT ![t] = r]
                      /\ extracted' =
                             Hist([extracted EXCEPT ![t] = @ \cup {attempt[t]}],
                                  extracted)
    /\ UNCHANGED <<gets, waited>>
    /\ UNCHANGED <<phase, results, merged>>
    /\ UNCHANGED <<paramVars, cacheVars, storeVars, toolVars>>

ParseReturns(t) ==
    /\ Running
    /\ pc[t] = "parse"
    /\ LET r == _parse_html_and_title(page[t], Link(t))
       IN IF r.raises
          THEN ExceptHandler(t)
          ELSE Finish(t, Record(Link(t), r.clean, r.title, r.domain))
    /\ page' = [page EXCEPT ![t] = NoPage]
    /\ UNCHANGED <<gets, waited, n5xx, extracted, last>>
    /\ UNCHANGED <<phase, results, merged>>
    /\ UNCHANGED <<paramVars, cacheVars, storeVars, toolVars>>

Wake(t) ==
    /\ Running
    /\ pc[t] = "sleep"
    /\ waited' = Hist([waited EXCEPT ![t] = @ + Backoff(backoff_base, attempt[t])],
                      waited)
    /\ gets' = Hist([gets EXCEPT ![t] = @ + 1], gets)
    /\ last' = Hist([last EXCEPT ![t] = NoPage], last)
    /\ Goto(t, "get", attempt[t] + 1, None)
    /\ UNCHANGED <<page, n5xx, extracted>>
    /\ UNCHANGED <<phase, results, merged>>
    /\ UNCHANGED <<paramVars, cacheVars, storeVars, toolVars>>

(***************************************************************************)
(* load_news_async.                                                        *)
(***************************************************************************)
NoItem == [url |-> "", title |-> NoneStr, domain |-> NoneStr, seendate |-> NoneStr,
           source |-> NoneStr]

MetaMap(its, link) ==
    IF \E i \in 1..Len(its) : its[i].url = link
    THEN its[CHOOSE i \in 1..Len(its) :
                 /\ its[i].url = link
                 /\ \A j \in (i + 1)..Len(its) : its[j].url # link]
    ELSE NoItem

Or(a, b) == IF Truthy(a) THEN a ELSE b

HasText(r) == r.clean_text # None

ObjCallerFirst(r, base) ==
    [url |-> r.url,
     domain |-> Or(base.domain, r.domain),
     title |-> Or(base.title, r.title),
     seendate |-> base.seendate,
     source |-> base.source,
     clean_text |-> r.clean_text[1],
     clean_len |-> r.clean_text[1].len]

Obj(r, base) ==
    [url |-> r.url,
     domain |-> Or(r.domain, base.domain),
     title |-> Or(r.title, base.title),
     seendate |-> base.seendate,
     source |-> base.source,
     clean_text |-> r.clean_text[1],
     clean_len |-> r.clean_text[1].len]

MergeNewestFirst(res, its) ==
    LET kept == SelectSeq(res, HasText)
    IN [i \in 1..Len(kept) |->
           Obj(kept[Len(kept) + 1 - i], MetaMap(its, kept[Len(kept) + 1 - i].url))]

MergeKeepsAll(res, its) ==
    [i \in 1..Len(res) |->
        [url |-> res[i].url, domain |-> res[i].domain, title |-> res[i].title,
         seendate |-> MetaMap(its, res[i].url).seendate,
         source |-> MetaMap(its, res[i].url).source,
         clean_text |-> Text("none", 0), clean_len |-> 0]]

Merge(res, its) ==
    LET kept == SelectSeq(res, HasText)
    IN [i \in 1..Len(kept) |-> Obj(kept[i], MetaMap(its, kept[i].url))]

NewTasks(n) ==
    /\ pc = [t \in 1..n |-> "new"]
    /\ attempt = [t \in 1..n |-> 0]
    /\ page = [t \in 1..n |-> NoPage]
    /\ rec = [t \in 1..n |-> None]
    /\ gets = [t \in 1..n |-> 0]
    /\ waited = [t \in 1..n |-> 0]
    /\ n5xx = [t \in 1..n |-> 0]
    /\ extracted = [t \in 1..n |-> {}]
    /\ last = [t \in 1..n |-> NoPage]

ReturnEmpty ==
    /\ phase = "gather"
    /\ items = <<>>
    /\ phase' = "returned"
    /\ UNCHANGED <<results, merged>>
    /\ UNCHANGED taskVars
    /\ UNCHANGED <<paramVars, cacheVars, storeVars, toolVars>>

GatherReturnsFirst ==
    /\ phase = "gather"
    /\ items # <<>>
    /\ \E t \in Tasks : pc[t] = "done"
    /\ LET done == SelectSeq([t \in Tasks |-> t], LAMBDA t : pc[t] = "done")
       IN /\ results' = [i \in 1..Len(done) |-> rec[done[i]][1]]
          /\ merged' = Merge([i \in 1..Len(done) |-> rec[done[i]][1]], items)
    /\ phase' = "returned"
    /\ UNCHANGED taskVars
    /\ UNCHANGED <<paramVars, cacheVars, storeVars, toolVars>>

GatherReturns ==
    /\ phase = "gather"
    /\ items # <<>>
    /\ \A t \in Tasks : pc[t] = "done"
    /\ results' = [t \in Tasks |-> rec[t][1]]
    /\ merged' = Merge([t \in Tasks |-> rec[t][1]], items)
    /\ phase' = "returned"
    /\ UNCHANGED taskVars
    /\ UNCHANGED <<paramVars, cacheVars, storeVars, toolVars>>

GatherRaises ==
    /\ phase = "gather"
    /\ \E t \in Tasks : pc[t] = "raised"
    /\ phase' = "raised"
    /\ UNCHANGED <<results, merged>>
    /\ UNCHANGED taskVars
    /\ UNCHANGED <<paramVars, cacheVars, storeVars, toolVars>>

InitCrawl ==
    /\ CacheEmpty
    /\ StoreIdle
    /\ ToolsIdle
    /\ phase = "gather"
    /\ items \in ItemLists
    /\ max_retries = DefaultMaxRetries
    /\ backoff_base = DefaultBackoffBase
    /\ max_concurrency \in 1..MaxConcurrency
    /\ NewTasks(Len(items))
    /\ results = <<>>
    /\ merged = <<>>

NextCrawl ==
    \/ \E t \in Tasks : TaskStart(t)
    \/ \E t \in Tasks : Acquire(t)
    \/ \E t \in Tasks : PoolTimeout(t)
    \/ \E t \in Tasks : GetReturns(t)
    \/ \E t \in Tasks : ParseReturns(t)
    \/ \E t \in Tasks : Wake(t)
    \/ ReturnEmpty
    \/ GatherReturns
    \/ GatherRaises

SpecCrawl == InitCrawl /\ [][NextCrawl]_vars

(***************************************************************************)
(* SpecFetch: one _fetch_one call on its own, for every max_retries and    *)
(* backoff_base within the bounds, on a client no other task uses (a       *)
(* connection of the pool is always free).                                 *)
(***************************************************************************)
InitFetch ==
    /\ CacheEmpty
    /\ StoreIdle
    /\ ToolsIdle
    /\ phase = "fetch"
    /\ items \in [1..1 -> CrawlItems]
    /\ max_retries \in 0..MaxRetries
    /\ backoff_base \in 1..MaxBackoffBase
    /\ max_concurrency = 1
    /\ NewTasks(1)
    /\ results = <<>>
    /\ merged = <<>>

NextFetch ==
    \/ \E t \in Tasks : TaskStart(t)
    \/ \E t \in Tasks : Acquire(t)
    \/ \E t \in Tasks : GetReturns(t)
    \/ \E t \in Tasks : ParseReturns(t)
    \/ \E t \in Tasks : Wake(t)

SpecFetch == InitFetch /\ [][NextFetch]_vars

(***************************************************************************)
(* C7  Retry with exponential backoff: the delay slept after failed        *)
(* attempt i is backoff_base * 2^i and nothing else is slept, so before    *)
(* its k-th GET a task has slept backoff_base * (2^(k-1) - 1) in total; a  *)
(* URL answering 503, 503, 200 with max_retries >= 3 is fetched three      *)
(* times, has slept backoff_base * 1 + backoff_base * 2 and yields the     *)
(* record made from the third response.                                    *)
(***************************************************************************)
RecordOfPage(link, html) ==
    Record(link, extract_main_text(html).text, html.title, Netloc(link))

BackoffIsExponential ==
    \A t \in Tasks :
        /\ gets[t] >= 1 =>
              waited[t] = backoff_base * (Pow2(gets[t] - 1) - 1)
        /\ (/\ max_retries >= 3
            /\ n5xx[t] = 2
            /\ gets[t] = 3
            /\ last[t] \in {Article, Fallback, Thin, Empty}
            /\ pc[t] = "done")
           => /\ waited[t] = backoff_base * 1 + backoff_base * 2
              /\ rec[t] = Some(RecordOfPage(Link(t), last[t]))

BackoffWitness ==
    \E t \in Tasks :
        /\ max_retries = 3
        /\ backoff_base = 2
        /\ pc[t] = "done"
        /\ n5xx[t] = 2
        /\ gets[t] = 3
        /\ last[t] = Article
        /\ waited[t] = 6
        /\ rec[t] = Some(Record(Link(t), Some(Text("trafilatura", 500)),
                                "Page title", Netloc(Link(t))))

(***************************************************************************)
(* C8 (as stated)  load_news_async does not raise and returns exactly one  *)
(* record per input item.                                                  *)
(***************************************************************************)
OneRecordPerInput ==
    /\ phase # "raised"
    /\ phase = "returned" =>
          /\ Len(merged) = Len(items)
          /\ \A i \in 1..Len(items) : merged[i].url = items[i].url

(***************************************************************************)
(* C8 (amended)  load_news_async raises only when urlparse rejects an      *)
(* input URL; when it returns, gather has collected exactly one record per *)
(* input item, and the returned list holds exactly the records whose       *)
(* clean_text is not absent: an item whose every attempt failed has no     *)
(* record in it.                                                           *)
(***************************************************************************)
WithText == {i \in 1..Len(results) : results[i].clean_text # None}

CrawlReturnsRecordsWithText ==
    /\ phase = "raised" => \E i \in 1..Len(items) : ~UrlParses(items[i].url)
    /\ phase = "returned" =>
          /\ Len(results) = Len(items)
          /\ \A i \in 1..Len(items) : results[i].url = items[i].url
          /\ Len(merged) = Cardinality(WithText)
          /\ \A i \in WithText :
                \E j \in 1..Len(merged) :
                    /\ merged[j].url = results[i].url
                    /\ merged[j].clean_text = results[i].clean_text[1]
          /\ \A i \in 1..Len(results) :
                results[i] = FailureRecord(items[i].url)
                => (\A j \in 1..Len(merged) : merged[j].url = items[i].url
                        => \E k \in WithText : k # i /\ results[k].url = items[i].url)

IsolationWitness ==
    /\ phase = "returned"
    /\ Len(items) = 2
    /\ results[1] = FailureRecord(UrlA)
    /\ results[2].clean_text = Some(Text("trafilatura", 500))
    /\ Len(merged) = 1
    /\ merged[1].url = UrlB

(***************************************************************************)
(* C9 (as stated)  at most max_concurrency client.get calls have started   *)
(* and not yet returned or raised.                                         *)
(***************************************************************************)
GetCallsBounded ==
    Cardinality({t \in Tasks : pc[t] \in {"get", "wire"}}) <= max_concurrency

(***************************************************************************)
(* C9 (amended)  at most max_concurrency of the fetches hold a connection  *)
(* of the client's pool at any time; the other client.get calls that have  *)
(* started wait inside the client for a connection.                        *)
(***************************************************************************)
ConnectionsBounded ==
    phase \in {"gather", "returned", "raised"} =>
        Cardinality({t \in Tasks : pc[t] = "wire"}) <= max_concurrency

PoolFullWitness ==
    /\ phase = "gather"
    /\ Len(items) = 2
    /\ max_concurrency = 1
    /\ pc[1] = "get"
    /\ pc[2] = "wire"

(***************************************************************************)
(* C10  Non-HTML skip: a 200 response whose Content-Type does not contain  *)
(* "html" and whose body, after leading whitespace, does not start with    *)
(* "<" (Json, Untyped) ends the task with the absent-text, absent-title    *)
(* record and is not given to the extraction; a 200 response failing       *)
(* either condition (every other page) is given to the extraction.         *)
(***************************************************************************)
NonHtmlPages == {Json, Untyped}

NonHtmlSkip ==
    \A t \in Tasks :
        /\ last[t] \in NonHtmlPages =>
              /\ pc[t] = "done"
              /\ rec[t] = Some(Record(Link(t), None, NoneStr, Netloc(Link(t))))
              /\ (gets[t] - 1) \notin extracted[t]
        /\ last[t] \in Pages \ NonHtmlPages => (gets[t] - 1) \in extracted[t]

NonHtmlSkipWitness ==
    \E t \in Tasks :
        /\ last[t] = Json
        /\ pc[t] = "done"
        /\ rec[t] = Some(FailureRecord(Link(t)))
        /\ extracted[t] = {}

(***************************************************************************)
(* C11  The retrying fetch never raises and always yields a result: for    *)
(* every max_retries >= 0, every backoff_base and every sequence of        *)
(* per-attempt outcomes, _fetch_one is never left by an exception and,     *)
(* when it has returned, it has returned a record for its URL.             *)
(***************************************************************************)
FetchOneYieldsRecord ==
    \A t \in Tasks :
        /\ pc[t] # "raised"
        /\ pc[t] = "done" => (rec[t] # None /\ rec[t][1].url = Link(t))

(***************************************************************************)
(* C12 (as stated)  Retryable versus terminal outcomes and the attempt     *)
(* budget: a further GET is issued only after a connect/read timeout or a  *)
(* 5xx status (so a first response that is a 4xx or a 200 means exactly    *)
(* one GET), never more than max_retries GETs are issued, and a task whose *)
(* attempts all ended in a timeout or 5xx has issued exactly max_retries.  *)
(***************************************************************************)
Is4xx(status) == 400 <= status /\ status < 500

Transient(r) ==
    \/ r.kind \in {"ReadTimeout", "ConnectTimeout"}
    \/ r.kind = "response" /\ Is5xx(r.status)

RetryOnlyTransient ==
    \A t \in Tasks :
        /\ pc[t] = "sleep" => Transient(last[t])
        /\ gets[t] <= max_retries
        /\ (pc[t] = "done" /\ Transient(last[t])) => gets[t] = max_retries

(***************************************************************************)
(* C12 (amended)  An attempt is final when it got a 4xx status or a 200    *)
(* response that was processed without an exception: no GET follows it. A  *)
(* further GET is issued only after an attempt that got a 5xx status or    *)
(* ended in an exception of any kind, the exception raised while a 200     *)
(* response is processed included.  Never more than max_retries GETs are   *)
(* issued, and a task that returned after a timeout or a 5xx has issued    *)
(* exactly max_retries.                                                    *)
(***************************************************************************)
Final(r, link) ==
    /\ r.kind = "response"
    /\ \/ Is4xx(r.status)
       \/ /\ r.status = 200
          /\ UrlParses(link)
          /\ SkipsExtraction(r) \/ ~_parse_html_and_title(r, link).raises

RetryAfterFailure ==
    \A t \in Tasks :
        /\ Final(last[t], Link(t)) => pc[t] \in {"parse", "done"}
        /\ pc[t] = "sleep" =>
              \/ last[t].kind # "response"
              \/ Is5xx(last[t].status)
              \/ last[t].status = 200 /\ _parse_html_and_title(last[t], Link(t)).raises
        /\ gets[t] <= max_retries
        /\ (pc[t] = "done" /\ Transient(last[t])) => gets[t] = max_retries

RetryWitness ==
    \E t \in Tasks :
        /\ max_retries = 3
        /\ pc[t] = "done"
        /\ gets[t] = 3
        /\ n5xx[t] = 1
        /\ last[t] = Reply("ReadTimeout", 0)
        /\ rec[t] = Some(FailureRecord(Link(t)))

(***************************************************************************)
(* C13  Completion: load_news_async has returned only in states where      *)
(* every task has returned its final record (none is waiting for a         *)
(* connection, on the network, sleeping or parsing) and the collected      *)
(* results hold the record of every input item, in input order.            *)
(***************************************************************************)
ReturnsWhenAllDone ==
    phase = "returned" =>
        /\ \A t \in Tasks : pc[t] = "done" /\ rec[t] # None
        /\ items # <<>> =>
              /\ Len(results) = Len(items)
              /\ \A t \in Tasks : results[t] = rec[t][1]

CompletionWitness ==
    /\ phase = "returned"
    /\ Len(items) = 2
    /\ \A t \in Tasks : pc[t] = "done"
    /\ results[1].clean_text # None
    /\ results[2] = FailureRecord(UrlB)

(***************************************************************************)
(* C14 (as stated)  Cache miss with a failing request: with no entry for   *)
(* the URL and a GET that returns a non-200 status or raises, cached_get   *)
(* returns a result (it does not raise), stores nothing and has sent the   *)
(* one request with the caller's headers.                                  *)
(***************************************************************************)
MissFailed ==
    /\ call.reply.kind # "none"
    /\ ~call.hit
    /\ ~(call.reply.kind = "response" /\ call.reply.status = 200)

MissFailureReturns ==
    MissFailed =>
        /\ call.result.kind = "response"
        /\ _load(fs, _key(call.url)) = None
        /\ call.sent = call.extra

(***************************************************************************)
(* C14 (amended)  With no entry for the URL, a non-200 reply is returned   *)
(* to the caller as it is and a transport error is raised to the caller;   *)
(* in both cases nothing is stored and the one request carried the         *)
(* caller's headers.                                                       *)
(***************************************************************************)
MissFailurePropagates ==
    MissFailed =>
        /\ call.reply.kind = "response" => call.result = call.reply
        /\ call.reply.kind = "exception" => call.result = Raised
        /\ _load(fs, _key(call.url)) = None
        /\ call.sent = call.extra

MissFailureWitness ==
    /\ MissFailed
    /\ call.reply = TransportError
    /\ call.result = Raised
    /\ _load(fs, _key(call.url)) = None

(***************************************************************************)
(* SpecFault: cached_get calls for one URL where a file operation of       *)
(* _store may raise (a full disk, a permission) and where, between calls,  *)
(* a file of the entry may be deleted or become unreadable or unparsable.  *)
(***************************************************************************)
FaultReplies ==
    Ok200 \cup {NotModified, Response(404, NoHeaders, "nf"), TransportError}

CachedGetFault ==
    /\ \E ttl \in {None, Some(0)}, extra \in ExtraHeaders, reply \in FaultReplies,
          fail \in 0..4 :
           /\ fail # 0 => reply \in Ok200
           /\ cached_get(StoreUrl, ttl, extra, reply, fail)
    /\ UNCHANGED storeVars
    /\ UNCHANGED <<crawlVars, toolVars>>

Damage ==
    /\ \E file \in {"mp", "dp"}, how \in {"delete", "corrupt"} :
           /\ fs[StoreKey][file] # None
           /\ fs' = IF how = "delete"
                    THEN [fs EXCEPT ![StoreKey][file] = None,
                                    ![StoreKey].bad = @ \ {file}]
                    ELSE [fs EXCEPT ![StoreKey].bad = @ \cup {file}]
    /\ UNCHANGED <<now, call, seen>>
    /\ UNCHANGED storeVars
    /\ UNCHANGED <<crawlVars, toolVars>>

NextFault == CachedGetFault \/ Damage

SpecFault == Init /\ [][NextFault]_vars

(***************************************************************************)
(* C15  A failed cache write is ignored: when the GET returns 200 and a    *)
(* file operation of _store raises, cached_get returns that 200 response   *)
(* with its new body, with and without an older entry; it neither raises   *)
(* nor returns the older cached body.                                      *)
(***************************************************************************)
FailedWriteIgnored ==
    call.fail # 0 => call.result = call.reply

OutcomeVisible ==
    [][(/\ call.reply.kind = "response"
        /\ call.reply.status = 304
        /\ call.hit
        /\ call'.reply.kind = "exception"
        /\ call'.url = call.url
        /\ call'.result.kind = "response")
       => call'.result # call.result]_vars

(***************************************************************************)
(* C18 (as stated)  Caller metadata is carried through untouched: every    *)
(* record load_news_async returns has the title, domain, seendate and      *)
(* source of an input item with its URL (of the input item at the same     *)
(* position when every item yielded a record).                             *)
(***************************************************************************)
SameMetadata(m, it) ==
    /\ it.url = m.url
    /\ m.title = it.title
    /\ m.domain = it.domain
    /\ m.seendate = it.seendate
    /\ m.source = it.source

CallerMetadataUntouched ==
    phase = "returned" =>
        /\ \A j \in 1..Len(merged) :
              \E i \in 1..Len(items) : SameMetadata(merged[j], items[i])
        /\ Len(merged) = Len(items) =>
              \A j \in 1..Len(merged) : SameMetadata(merged[j], items[j])

(***************************************************************************)
(* C18 (amended)  In every record load_news_async returns, seendate and    *)
(* source are those of the last input item with the record's URL; title is *)
(* the <title> of the fetched page when the page has a non-empty one and   *)
(* that item's title otherwise; domain is the host name of the URL when it *)
(* is non-empty and that item's domain otherwise.                          *)
(***************************************************************************)
LastItem(link) ==
    items[CHOOSE i \in 1..Len(items) :
              /\ items[i].url = link
              /\ \A j \in (i + 1)..Len(items) : items[j].url # link]

PageMetadataFirst ==
    phase = "returned" =>
        \A j \in 1..Len(merged) :
            \E i \in WithText :
                /\ results[i].url = merged[j].url
                /\ merged[j].clean_text = results[i].clean_text[1]
                /\ merged[j].seendate = LastItem(merged[j].url).seendate
                /\ merged[j].source = LastItem(merged[j].url).source
                /\ merged[j].title =
                       IF results[i].title \notin {NoneStr, ""}
                       THEN results[i].title
                       ELSE LastItem(merged[j].url).title
                /\ merged[j].domain =
                       IF Netloc(merged[j].url) # ""
                       THEN Netloc(merged[j].url)
                       ELSE LastItem(merged[j].url).domain

PageMetadataWitness ==
    /\ phase = "returned"
    /\ Len(items) = 2
    /\ items[1].title = "Title A"
    /\ items[2].title = "Title D"
    /\ Len(merged) = 2
    /\ merged[1].title = "Page title"
    /\ merged[1].domain = "a.example"
    /\ merged[1].seendate = "d4"
    /\ merged[2].title = "Title D"

(***************************************************************************)
(* SpecRace: two callers run _store for the same URL, their file           *)
(* operations interleaved.  Both use the temporary files of the key,       *)
(* <key>.meta.tmp and <key>.tmp.  Here wpc and wresp map each writer to    *)
(* its position and its response; "error" is a _store left by the          *)
(* FileNotFoundError of os.replace on a temporary file that is gone.       *)
(***************************************************************************)
Writers == {1, 2}

RaceWriteTmpData(w) ==
    /\ wpc[w] \in {"idle", "error"}
    /\ nstores < MaxStores
    /\ \E resp \in Ok200 :
          /\ wresp' = [wresp EXCEPT ![w] = resp]
          /\ fs' = WriteTmpData(fs, StoreKey, resp.content)
          /\ written' = written \cup
                 {[meta |-> MetaOf(StoreUrl, resp, now), data |-> resp.content]}
    /\ nstores' = nstores + 1
    /\ wpc' = [wpc EXCEPT ![w] = "wrote_tmpd"]
    /\ UNCHANGED <<now, call, seen, rpc, rmeta, rret>>
    /\ UNCHANGED <<crawlVars, toolVars>>

RaceWriteTmpMeta(w) ==
    /\ wpc[w] = "wrote_tmpd"
    /\ fs' = WriteTmpMeta(fs, StoreKey, MetaOf(StoreUrl, wresp[w], now))
    /\ wpc' = [wpc EXCEPT ![w] = "wrote_tmpm"]
    /\ UNCHANGED <<now, call, seen, wresp, written, nstores, rpc, rmeta, rret>>
    /\ UNCHANGED <<crawlVars, toolVars>>

RaceReplaceData(w) ==
    /\ wpc[w] = "wrote_tmpm"
    /\ IF fs[StoreKey].tmpd = None
       THEN /\ wpc' = [wpc EXCEPT ![w] = "error"]
            /\ UNCHANGED fs
       ELSE /\ wpc' = [wpc EXCEPT ![w] = "replaced_dp"]
            /\ fs' = ReplaceData(fs, StoreKey)
    /\ UNCHANGED <<now, call, seen, wresp, written, nstores, rpc, rmeta, rret>>
    /\ UNCHANGED <<crawlVars, toolVars>>

RaceReplaceMeta(w) ==
    /\ wpc[w] = "replaced_dp"
    /\ IF fs[StoreKey].tmpm = None
       THEN /\ wpc' = [wpc EXCEPT ![w] = "error"]
            /\ UNCHANGED fs
       ELSE /\ wpc' = [wpc EXCEPT ![w] = "idle"]
            /\ fs' = ReplaceMeta(fs, StoreKey)
    /\ UNCHANGED <<now, call, seen, wresp, written, nstores, rpc, rmeta, rret>>
    /\ UNCHANGED <<crawlVars, toolVars>>

InitRace ==
    /\ CacheEmpty
    /\ CrawlIdle
    /\ ToolsIdle
    /\ wpc = [w \in Writers |-> "idle"]
    /\ wresp = [w \in Writers |-> NoReply]
    /\ written = {}
    /\ nstores = 0
    /\ rpc = "idle"
    /\ rmeta = None
    /\ rret = None

NextRace ==
    \/ \E w \in Writers : RaceWriteTmpData(w)
    \/ \E w \in Writers : RaceWriteTmpMeta(w)
    \/ \E w \in Writers : RaceReplaceData(w)
    \/ \E w \in Writers : RaceReplaceMeta(w)

SpecRace == InitRace /\ [][NextRace]_vars

(***************************************************************************)
(* C19  Same-key concurrent writes are last-writer-wins: two interleaved   *)
(* _store calls for the same URL both complete without error, and once no  *)
(* _store is running the entry on disk is the complete (metadata, body)    *)
(* pair of one of the stored responses.                                    *)
(***************************************************************************)
LastWriterWins ==
    /\ \A w \in Writers : wpc[w] # "error"
    /\ (nstores > 0 /\ \A w \in Writers : wpc[w] = "idle") =>
           /\ _load(fs, StoreKey) # None
           /\ _load(fs, StoreKey)[1] \in written

(***************************************************************************)
(* C20  Conditional request headers: when an entry exists, the headers of  *)
(* the GET carry If-None-Match with the stored etag exactly when the       *)
(* stored etag is present and If-Modified-Since with the stored            *)
(* last_modified exactly when that is present; a caller's header of the    *)
(* same name does not replace the stored value, cached_get adds no other   *)
(* header, and every other header of the caller is sent unchanged.         *)
(***************************************************************************)
SentValues(h, name) == {h[n] : n \in {m \in DOMAIN h : Lower(m) = Lower(name)}}

StoredValueSent(name, stored) ==
    IF Truthy(stored)
    THEN /\ name \in DOMAIN call.sent
         /\ call.sent[name] = stored
         /\ stored \in SentValues(call.sent, name)
    ELSE /\ SentValues(call.sent, name) = SentValues(call.extra, name)
         /\ stored \notin SentValues(call.sent, name)

ConditionalHeadersSent ==
    call.hit =>
        /\ StoredValueSent("If-None-Match", call.etag)
        /\ StoredValueSent("If-Modified-Since", call.last_modified)
        /\ DOMAIN call.sent \subseteq
               DOMAIN call.extra \cup {"If-None-Match", "If-Modified-Since"}
        /\ \A n \in DOMAIN call.extra \ {"If-None-Match", "If-Modified-Since"} :
               n \in DOMAIN call.sent /\ call.sent[n] = call.extra[n]

ConditionalHeadersWitness ==
    /\ call.hit
    /\ call.etag = "e1"
    /\ call.last_modified = NoneStr
    /\ "If-None-Match" \in DOMAIN call.extra
    /\ call.extra["If-None-Match"] = "caller"
    /\ call.sent["If-None-Match"] = "e1"
    /\ call.sent["User-Agent"] = "ua"
    /\ "If-Modified-Since" \notin DOMAIN call.sent

(***************************************************************************)
(* C21  Frame of the cache: at every point of a sequence of cached_get     *)
(* calls, a URL whose GETs never returned 200 has no file, and the entry   *)
(* of every other URL is exactly the one written for the last 200 reply to *)
(* a GET for that URL, whatever calls followed (304, another status, a     *)
(* transport exception, calls for another URL): only a 200 reply for the   *)
(* URL changes its entry and no call removes it.                           *)
(***************************************************************************)
FrameOfCache ==
    \A u \in Urls :
        IF seen[u] = None
        THEN fs[_key(u)] = NoFiles
        ELSE /\ fs[_key(u)].mp # None
             /\ fs[_key(u)].dp = Some(seen[u][1].body)
             /\ \E r \in Ok200 :
                    /\ r.content = seen[u][1].body
                    /\ fs[_key(u)].mp = Some(MetaOf(u, r, seen[u][1].at))

FrameWitness ==
    /\ call.url = "u1"
    /\ call.reply = NotModified
    /\ call.hit
    /\ call.at > seen["u1"][1].at
    /\ seen["u2"] # None
    /\ seen["u2"][1].at > seen["u1"][1].at
    /\ fs[_key("u1")].dp = call.prev

(***************************************************************************)
(* C22  Header sanitization of cache-served responses: every response that *)
(* cached_get builds from the cache (on a 304 or on a raising GET) has no  *)
(* header named Content-Encoding, Transfer-Encoding or Content-Length in   *)
(* any letter case, whatever the case the names came in, and has every     *)
(* other stored header with its stored value, and no header besides.       *)
(***************************************************************************)
StrippedNames == {"content-encoding", "transfer-encoding", "content-length"}

StoredHeaders(u) == fs[_key(u)].mp[1].headers

InGet(t) == pc[t] \in {"get", "wire"}

NoConcurrentAttemptsPerUrl ==
    phase = "gather"
    => \A t, u \in Tasks :
           (t # u /\ Link(t) = Link(u)) => ~(InGet(t) /\ InGet(u))

(***************************************************************************)
(* C23 as it holds: the attempts of one item are sequential.  A task       *)
(* enters client.get only when it starts or when the asyncio.sleep that    *)
(* followed its previous attempt has ended, and the attempt it then makes  *)
(* is the next one of that item.                                           *)
(***************************************************************************)
AttemptsSequential ==
    [][\A t \in Tasks :
          (~InGet(t) /\ pc'[t] = "get")
          => \/ pc[t] = "new" /\ attempt'[t] = 0
             \/ pc[t] = "sleep" /\ attempt'[t] = attempt[t] + 1]_vars

OverlapWitness ==
    /\ phase = "gather"
    /\ \E t, u \in Tasks :
           /\ t # u
           /\ Link(t) = Link(u)
           /\ pc[t] = "wire"
           /\ attempt[t] = 1
           /\ pc[u] = "get"

(***************************************************************************)
(* C24  Minimum-content threshold: every text extract_main_text returns,   *)
(* hence the clean_text of every record, has at least MinChars characters, *)
(* whichever strategy produced it; a page on which every strategy gave     *)
(* less, or failed, has a record without text.                             *)
(***************************************************************************)
MinimumContent ==
    \A t \in Tasks :
        rec[t] # None
        => \/ rec[t][1].clean_text = None
           \/ rec[t][1].clean_text[1].len >= MinChars

(***************************************************************************)
(* YFSectorFetcher (love_cusip.py).  The remote lookup yf.Ticker(t)        *)
(* .get_info() either raises or returns an info dictionary; an entry of    *)
(* the cache carries the key "error" only when the retries were exhausted  *)
(* (Absent stands for a missing key).                                      *)
(***************************************************************************)
MaxLookupRetries == 2

Absent == "<absent>"

Tickers == {"aapl", "AAPL", "msft"}

Upper(ticker) ==
    CASE ticker = "aapl" -> "AAPL"
      [] ticker = "msft" -> "MSFT"
      [] OTHER -> ticker

CacheKeys == {Upper(ticker) : ticker \in Tickers}

GetInfoRaises == [kind |-> "raises", sector |-> NoneStr, industry |-> NoneStr]

Info(sector, industry) == [kind |-> "info", sector |-> sector, industry |-> industry]

GetInfoOutcomes ==
    {GetInfoRaises, Info("Technology", "Software"), Info(NoneStr, NoneStr)}

InfoEntry(info) ==
    [sector |-> info.sector, industry |-> info.industry, error |-> Absent]

ExhaustedEntry(last_err) ==
    [sector |-> NoneStr, industry |-> NoneStr, error |-> last_err]

EmptyCache == [t \in CacheKeys |-> None]

SectorLoad(file) == IF file = None THEN EmptyCache ELSE file[1]

(***************************************************************************)
(* get_sector_industry(ticker, retries) on the cache c, the i-th remote    *)
(* lookup giving outcomes[i]: the cache after the call, the number of      *)
(* remote lookups made and the value returned.                             *)
(***************************************************************************)
InCache(c, t) == c[t] # None

get_sector_industry(c, ticker, retries, outcomes) ==
    LET t == Upper(ticker)
        ok == {i \in 1..retries : outcomes[i].kind = "info"}
        first == CHOOSE i \in ok : \A j \in ok : i <= j
        entry == IF ok # {}
                 THEN InfoEntry(outcomes[first])
                 ELSE ExhaustedEntry(IF retries > 0 THEN "err" ELSE NoneStr)
    IN IF InCache(c, t)
       THEN [cache |-> c, saved |-> FALSE, remote |-> 0, result |-> c[t][1]]
       ELSE [cache |-> [c EXCEPT ![t] = Some(entry)],
             saved |-> TRUE,
             remote |-> IF ok # {} THEN first ELSE retries,
             result |-> entry]

GetSectorIndustry ==
    \E ticker \in Tickers, retries \in 0..MaxLookupRetries :
      \E outcomes \in [1..retries -> GetInfoOutcomes] :
        LET r == get_sector_industry(cache, ticker, retries, outcomes)
        IN /\ cache' = r.cache
           /\ cache_file' = IF r.saved THEN Some(r.cache) ELSE cache_file
           /\ lookup' = Some([ticker |-> ticker, retries |-> retries,
                               prev |-> cache[Upper(ticker)],
                               remote |-> r.remote, result |-> r.result])
           /\ UNCHANGED <<cacheVars, storeVars, crawlVars, newsVars, holdingVars>>

(***************************************************************************)
(* A new YFSectorFetcher (enrich_stocks_with_yf makes one per run) loads   *)
(* its cache from the file.                                                *)
(***************************************************************************)
NewFetcher ==
    /\ cache' = SectorLoad(cache_file)
    /\ lookup' = None
    /\ UNCHANGED cache_file
    /\ UNCHANGED <<cacheVars, storeVars, crawlVars, newsVars, holdingVars>>

InitSector ==
    /\ CacheEmpty
    /\ StoreIdle
    /\ CrawlIdle
    /\ NewsIdle
    /\ HoldingsIdle
    /\ cache_file = None
    /\ cache = SectorLoad(cache_file)
    /\ lookup = None

NextSector == GetSectorIndustry \/ NewFetcher

SpecSector == InitSector /\ [][NextSector]_vars

(***************************************************************************)
(* C25  Sector lookup failures can be retried: a get_sector_industry call  *)
(* (with retries >= 1) for a ticker whose entry records exhausted retries  *)
(* makes a remote lookup again, and a call for a ticker whose lookup       *)
(* succeeded returns the entry of the cache without a remote lookup.       *)
(***************************************************************************)
FailureEntryRetried ==
    lookup # None
    => LET l == lookup[1]
       IN /\ (l.prev # None /\ l.prev[1].error # Absent /\ l.retries >= 1)
             => l.remote >= 1
          /\ (l.prev # None /\ l.prev[1].error = Absent)
             => (l.remote = 0 /\ l.result = l.prev[1])

(***************************************************************************)
(* news_dumps.json (news_parser.py writes it, sector_forecaster.py reads   *)
(* it).  A text is a sequence of characters.  An article stands in the     *)
(* text as the JSON string of its clean_text; the indentation json.dumps   *)
(* (indent=4) puts before an element is shortened to a line feed and one   *)
(* blank.                                                                  *)
(***************************************************************************)
MaxDumps == 3
MaxArticles == 2

Quote == "\""

Articles == {<<"a">>, <<"x", "]", " ", "[", "y">>}

ArticleLists == UNION {[1..n -> Articles] : n \in 0..MaxArticles}

JsonString(a) == <<Quote>> \o a \o <<Quote>>

RECURSIVE JoinElements(_, _)
JoinElements(list, i) ==
    IF i > Len(list) THEN <<>>
    ELSE (IF i = 1 THEN <<>> ELSE <<",">>) \o <<"\n", " ">>
         \o JsonString(list[i]) \o JoinElements(list, i + 1)

json_dumps(list) ==
    IF list = <<>> THEN <<"[", "]">>
    ELSE <<"[">> \o JoinElements(list, 1) \o <<"\n", "]">>

RECURSIVE RStrip(_)
RStrip(str) ==
    IF str # <<>> /\ str[Len(str)] \in Whitespace
    THEN RStrip(SubSeq(str, 1, Len(str) - 1))
    ELSE str

Strip(str) == RStrip(LStrip(str))

(***************************************************************************)
(* re.sub(r"]\s*\[", ",", text) from position i: a "]" followed by any     *)
(* white space and a "[" becomes one comma, wherever it stands.            *)
(***************************************************************************)
RECURSIVE SkipSpace(_, _)
SkipSpace(text, i) ==
    IF i <= Len(text) /\ text[i] \in Whitespace THEN SkipSpace(text, i + 1) ELSE i

RECURSIVE ReSubBoundary(_, _)
ReSubBoundary(text, i) ==
    IF i > Len(text) THEN <<>>
    ELSE LET j == SkipSpace(text, i + 1)
         IN IF text[i] = "]" /\ j <= Len(text) /\ text[j] = "["
            THEN <<",">> \o ReSubBoundary(text, j + 1)
            ELSE <<text[i]>> \o ReSubBoundary(text, i + 1)

_clean_json_payload(raw_text) ==
    IF Strip(raw_text) = <<>> THEN <<"[", "]">>
    ELSE ReSubBoundary(Strip(raw_text), 1)

(***************************************************************************)
(* json.loads on such a text: its tokens, then the array of strings they   *)
(* spell, or None for the JSONDecodeError.                                 *)
(***************************************************************************)
Punct(c) == [t |-> c, v |-> <<>>]

Str(v) == [t |-> "str", v |-> v]

BadToken == [t |-> "bad", v |-> <<>>]

RECURSIVE Tokens(_, _)
Tokens(text, i) ==
    IF i > Len(text) THEN <<>>
    ELSE IF text[i] \in Whitespace THEN Tokens(text, i + 1)
    ELSE IF text[i] \in {"[", "]", ","}
         THEN <<Punct(text[i])>> \o Tokens(text, i + 1)
    ELSE IF text[i] = Quote
         THEN LET closing == {j \in (i + 1)..Len(text) : text[j] = Quote}
                  j == CHOOSE k \in closing : \A m \in closing : k <= m
              IN IF closing = {} THEN <<BadToken>>
                 ELSE <<Str(SubSeq(text, i + 1, j - 1))>> \o Tokens(text, j + 1)
    ELSE <<BadToken>>

json_loads(text) ==
    LET toks == Tokens(text, 1)
        n == Len(toks)
    IN IF /\ n >= 2
          /\ toks[1] = Punct("[")
          /\ toks[n] = Punct("]")
          /\ n = 2 \/ n % 2 = 1
          /\ \A k \in 2..(n - 1) :
                 IF k % 2 = 0 THEN toks[k].t = "str" ELSE toks[k] = Punct(",")
       THEN Some([k \in 1..((n - 1) \div 2) |-> toks[2 * k].v])
       ELSE None

load_news_articles(text) ==
    LET data == json_loads(_clean_json_payload(text))
    IN IF data = None
       THEN [kind |-> "ValueError", data |-> <<>>]
       ELSE [kind |-> "list", data |-> data[1]]

(***************************************************************************)
(* news_parser.py writes one json.dumps(data) per loader run into the open *)
(* file; sector_forecaster.py reads the closed file.                       *)
(***************************************************************************)
WriteDump ==
    /\ news_loaded = None
    /\ Len(dumps) < MaxDumps
    /\ \E data \in ArticleLists :
           /\ dumps' = Append(dumps, data)
           /\ news_file' = news_file \o json_dumps(data)
    /\ UNCHANGED news_loaded
    /\ UNCHANGED <<cacheVars, storeVars, crawlVars, sectorVars, holdingVars>>

LoadNewsArticles ==
    /\ news_loaded = None
    /\ news_loaded' = Some(load_news_articles(news_file))
    /\ UNCHANGED <<dumps, news_file>>
    /\ UNCHANGED <<cacheVars, storeVars, crawlVars, sectorVars, holdingVars>>

InitNews ==
    /\ CacheEmpty
    /\ StoreIdle
    /\ CrawlIdle
    /\ SectorIdle
    /\ HoldingsIdle
    /\ NewsIdle

NextNews == WriteDump \/ LoadNewsArticles

SpecNews == InitNews /\ [][NextNews]_vars

(***************************************************************************)
(* C26  Concatenated news dumps parse as one array: for every sequence of  *)
(* lists written back to back, each possibly empty, _clean_json_payload    *)
(* gives a valid JSON array and load_news_articles returns the articles of *)
(* all the lists in their written order.                                   *)
(***************************************************************************)
RECURSIVE Flatten(_)
Flatten(lists) ==
    IF lists = <<>> THEN <<>> ELSE Head(lists) \o Flatten(Tail(lists))

ConcatenatedDumpsParse ==
    news_loaded # None
    => /\ json_loads(_clean_json_payload(news_file)) # None
       /\ news_loaded[1].kind = "list"
       /\ news_loaded[1].data = Flatten(dumps)

(***************************************************************************)
(* C27  An extraction fault costs no further request: once the GET of an   *)
(* attempt returned a 200 response that was handed to the extraction, no   *)
(* further GET is issued for the item, and when the extraction raised the  *)
(* item ends with a record without text.                                   *)
(***************************************************************************)
ExtractionFaultNoRefetch ==
    \A t \in Tasks :
        /\ \A a \in extracted[t] : gets[t] <= a + 1
        /\ (/\ pc[t] = "done"
            /\ last[t] \in Pages \ NonHtmlPages
            /\ extract_main_text(last[t]).raises)
           => rec[t] = Some(FailureRecord(Link(t)))

(***************************************************************************)
(* C28  Result order follows input order: whatever the order in which the  *)
(* tasks ended, the list load_news_async returned holds, in the order of   *)
(* the input items, one record for each item whose task ended with a text, *)
(* with the URL of that item and the text of that task.                    *)
(***************************************************************************)
TextTasks ==
    SelectSeq([t \in Tasks |-> t],
              LAMBDA t : rec[t] # None /\ rec[t][1].clean_text # None)

ResultOrderFollowsInput ==
    (phase = "returned" /\ items # <<>>)
    => /\ Len(merged) = Len(TextTasks)
       /\ \A i \in 1..Len(merged) :
              /\ merged[i].url = items[TextTasks[i]].url
              /\ merged[i].clean_text = rec[TextTasks[i]][1].clean_text[1]

ResultOrderWitness ==
    /\ phase = "returned"
    /\ Len(items) = 2
    /\ items[1].url = UrlB
    /\ items[2].url = UrlA
    /\ Len(merged) = 2
    /\ merged[1].url = UrlB
    /\ merged[1].clean_text.by = "strip"
    /\ merged[2].url = UrlA
    /\ merged[2].clean_text.by = "trafilatura"

(***************************************************************************)
(* stock.py: Stock positions and group_and_merge.  value_usd is a Decimal  *)
(* and shares and the voting counts are int: their sums are exact.         *)
(***************************************************************************)
MaxStocks == 3

VotingAuthority(sole, shared, none) == [sole |-> sole, shared |-> shared, none |-> none]

Stock(issuer, title, cusip, value, shares, shares_type, inv, om, voting) ==
    [issuer |-> issuer, title_of_class |-> title, cusip |-> cusip,
     value_usd |-> value, shares |-> shares, shares_type |-> shares_type,
     investment_discretion |-> inv, other_manager |-> om, voting |-> voting,
     sector |-> NoneStr]

Positions ==
    { Stock("ACME", "COM", "111", 10, 1, "SH", "SOLE", <<2>>, VotingAuthority(1, 0, 0)),
      Stock("ACME", "COM", "111", 5, 2, "", "DFND", <<1, 2>>, VotingAuthority(0, 2, 0)),
      Stock("ACME", "PFD", "111", 7, 3, "SH", "SOLE", <<>>, VotingAuthority(0, 0, 3)),
      Stock("ACME", "COM", "222", 1, 4, "PRN", "SOLE", <<3>>, VotingAuthority(4, 0, 0)),
      [Stock("BETA", "COM", "111", 2, 5, "SH", "SOLE", <<>>, VotingAuthority(1, 1, 1))
          EXCEPT !.sector = "Energy"] }

StockLists == UNION {[1..n -> Positions] : n \in 0..MaxStocks}

key(s) == <<s.issuer, s.title_of_class, s.cusip>>

VotingMerge(a, b) ==
    VotingAuthority(a.sole + b.sole, a.shared + b.shared, a.none + b.none)

RECURSIVE SortedSet(_)
SortedSet(S) ==
    IF S = {} THEN <<>>
    ELSE LET m == CHOOSE x \in S : \A y \in S : x <= y
         IN <<m>> \o SortedSet(S \ {m})

Range(seq) == {seq[i] : i \in 1..Len(seq)}

MergeKeepsValue(a, b) ==
    Stock(a.issuer, a.title_of_class, a.cusip,
          a.value_usd,
          a.shares + b.shares,
          IF a.shares_type # "" THEN a.shares_type ELSE b.shares_type,
          IF a.investment_discretion = b.investment_discretion
          THEN a.investment_discretion ELSE "DFND",
          SortedSet(Range(a.other_manager \o b.other_manager)),
          VotingMerge(a.voting, b.voting))

merge(a, b) ==
    Stock(a.issuer, a.title_of_class, a.cusip,
          a.value_usd + b.value_usd,
          a.shares + b.shares,
          IF a.shares_type # "" THEN a.shares_type ELSE b.shares_type,
          IF a.investment_discretion = b.investment_discretion
          THEN a.investment_discretion ELSE "DFND",
          SortedSet(Range(a.other_manager \o b.other_manager)),
          VotingMerge(a.voting, b.voting))

(***************************************************************************)
(* group_and_merge: groups is a dict, which keeps its keys in the order of *)
(* their first insertion; it is the sequence of its values here.           *)
(***************************************************************************)
RECURSIVE GroupLoop(_, _, _)
GroupLoop(list, i, groups) ==
    IF i > Len(list) THEN groups
    ELSE LET s == list[i]
             at == {g \in 1..Len(groups) : key(groups[g]) = key(s)}
         IN IF at = {}
            THEN GroupLoop(list, i + 1, Append(groups, s))
            ELSE GroupLoop(list, i + 1,
                           [groups EXCEPT ![CHOOSE g \in at : TRUE] = merge(@, s)])

group_and_merge(list) == GroupLoop(list, 1, <<>>)

RECURSIVE total_value(_)
total_value(list) ==
    IF list = <<>> THEN 0 ELSE Head(list).value_usd + total_value(Tail(list))

GroupAndMerge ==
    /\ grouped = None
    /\ grouped' = Some(group_and_merge(stocks))
    /\ UNCHANGED <<stocks, regrouped>>
    /\ UNCHANGED <<cacheVars, storeVars, crawlVars, sectorVars, newsVars>>

GroupAgain ==
    /\ grouped # None
    /\ regrouped = None
    /\ regrouped' = Some(group_and_merge(grouped[1]))
    /\ UNCHANGED <<stocks, grouped>>
    /\ UNCHANGED <<cacheVars, storeVars, crawlVars, sectorVars, newsVars>>

InitHoldings ==
    /\ CacheEmpty
    /\ StoreIdle
    /\ CrawlIdle
    /\ SectorIdle
    /\ NewsIdle
    /\ stocks \in StockLists
    /\ grouped = None
    /\ regrouped = None

NextHoldings == GroupAndMerge \/ GroupAgain

SpecHoldings == InitHoldings /\ [][NextHoldings]_vars

(***************************************************************************)
(* C29  group_and_merge conserves the holdings: the result has one Stock   *)
(* per distinct (issuer, title_of_class, cusip) of the input, in the order *)
(* of first occurrence; its value_usd, shares and voting counts are the    *)
(* sums over the input positions of that key; total_value is the same for  *)
(* the input and the result; group_and_merge of the result is the result.  *)
(***************************************************************************)
FirstOccurrences(list) ==
    SelectSeq([i \in 1..Len(list) |-> i],
              LAMBDA i : \A j \in 1..(i - 1) : key(list[j]) # key(list[i]))

RECURSIVE SumSeq(_)
SumSeq(amounts) ==
    IF amounts = <<>> THEN 0 ELSE Head(amounts) + SumSeq(Tail(amounts))

SumOf(list, k, Field(_)) ==
    SumSeq([i \in 1..Len(list) |-> IF key(list[i]) = k THEN Field(list[i]) ELSE 0])

ValueOf(s) == s.value_usd
SharesOf(s) == s.shares
SoleOf(s) == s.voting.sole
SharedOf(s) == s.voting.shared
NoneOf(s) == s.voting.none

HoldingsConserved ==
    /\ grouped # None
       => LET g == grouped[1]
              first == FirstOccurrences(stocks)
          IN /\ Len(g) = Len(first)
             /\ \A i \in 1..Len(g) :
                    LET k == key(stocks[first[i]])
                    IN /\ key(g[i]) = k
                       /\ g[i].value_usd = SumOf(stocks, k, ValueOf)
                       /\ g[i].shares = SumOf(stocks, k, SharesOf)
                       /\ g[i].voting.sole = SumOf(stocks, k, SoleOf)
                       /\ g[i].voting.shared = SumOf(stocks, k, SharedOf)
                       /\ g[i].voting.none = SumOf(stocks, k, NoneOf)
             /\ total_value(g) = total_value(stocks)
    /\ regrouped # None => regrouped = grouped

HoldingsWitness ==
    /\ regrouped # None
    /\ Len(stocks) = 3
    /\ key(stocks[1]) = <<"ACME", "COM", "111">>
    /\ key(stocks[2]) = <<"ACME", "PFD", "111">>
    /\ key(stocks[3]) = key(stocks[1])
    /\ stocks[3] # stocks[1]
    /\ Len(grouped[1]) = 2
    /\ grouped[1][1].value_usd = 15
    /\ grouped[1][1].shares = 3
    /\ grouped[1][2] = stocks[2]

(***************************************************************************)
(* SpecCrawlFair: the crawl under the scheduling the event loop gives.  A  *)
(* task that can run is run; a GET on the wire returns or raises (each     *)
(* attempt carries its timeout); a GET waiting for a connection gets one   *)
(* or is ended by the pool timeout; the extraction returns or raises; a    *)
(* sleep ends; gather resumes its caller once its tasks have ended.        *)
(***************************************************************************)
FairCrawl ==
    /\ \A t \in 1..MaxItems :
           /\ WF_vars(t \in Tasks /\ TaskStart(t))
           /\ WF_vars(t \in Tasks /\ (Acquire(t) \/ PoolTimeout(t)))
           /\ WF_vars(t \in Tasks /\ GetReturns(t))
           /\ WF_vars(t \in Tasks /\ ParseReturns(t))
           /\ WF_vars(t \in Tasks /\ Wake(t))
    /\ WF_vars(ReturnEmpty)
    /\ WF_vars(GatherReturns)
    /\ WF_vars(GatherRaises)

SpecCrawlFair == SpecCrawl /\ FairCrawl

(***************************************************************************)
(* C30  The crawl terminates: for every list of items and every pattern of *)
(* failures, every task ends with a record and load_news_async eventually  *)
(* returns.                                                                *)
(***************************************************************************)
CrawlTerminates ==
    <>(/\ phase = "returned"
       /\ \A t \in Tasks : pc[t] = "done" /\ rec[t] # None)

====
